---- MODULE Spec2Model ----
(***************************************************************************)
(* Model of entry_and_monitor.py: the strike indexer, the ATM resolver,    *)
(* the tick reader, EntryModule.run_entry_check and MonitorModule.         *)
(*                                                                         *)
(* Numbers are exact rationals [n, d] with d > 0 (prices and premiums are  *)
(* integers, percent fields are fractions).  A field of a tick is a tagged *)
(* value: a number, a numeric string, None, the empty string, a            *)
(* non-numeric string, the string "nan", or absent (no such key).          *)
(* An option symbol is a tuple of one-character strings.                   *)
(***************************************************************************)
EXTENDS Integers, Sequences, FiniteSets, TLC

----------------------------------------------------------------------------
(* Values and exact arithmetic *)

Rat(n, d) == [n |-> n, d |-> d]

RAdd(a, b) == Rat(a.n * b.d + b.n * a.d, a.d * b.d)

RSub(a, b) == Rat(a.n * b.d - b.n * a.d, a.d * b.d)

RLe(a, b) == a.n * b.d <= b.n * a.d

RGe(a, b) == RLe(b, a)

REq(a, b) == a.n * b.d = b.n * a.d

Abs(x) == IF x < 0 THEN -x ELSE x

RAbs(a) == Rat(Abs(a.n), a.d)

\* Field values of a tick record.
Num(n) == [k |-> "num", n |-> n, d |-> 1]

Frac(n, d) == [k |-> "num", n |-> n, d |-> d]

NumStr(n) == [k |-> "numstr", n |-> n, d |-> 1]

PyNone == [k |-> "none", n |-> 0, d |-> 1]

EmptyStr == [k |-> "empty", n |-> 0, d |-> 1]

BadStr == [k |-> "str", n |-> 0, d |-> 1]

NaNStr == [k |-> "nan", n |-> 0, d |-> 1]

Absent == [k |-> "absent", n |-> 0, d |-> 1]

\* float(x): the outcome is a value, a NaN, or an exception.
FloatOk(x) == x.k \in {"num", "numstr"}

FloatNaN(x) == x.k = "nan"

FloatRaises(x) == ~FloatOk(x) /\ ~FloatNaN(x)

FloatVal(x) == Rat(x.n, x.d)

\* d.get(key): an absent key reads as None.
DictGet(x) == IF x.k = "absent" THEN PyNone ELSE x

\* x in (None, "")
NoneOrEmpty(x) == x.k \in {"none", "empty"}

\* A tick: None (no entry in the store) or a dict with "ltp" and, when
\* hasraw, a nested "raw" dict with "ltp", "ltpch", "ltpchp".
NoTick == [some |-> FALSE, ltp |-> Absent, hasraw |-> FALSE,
           rltp |-> Absent, ltpch |-> Absent, ltpchp |-> Absent]

Tick(ltp) == [some |-> TRUE, ltp |-> ltp, hasraw |-> FALSE,
              rltp |-> Absent, ltpch |-> Absent, ltpchp |-> Absent]

RawTick(ltp, rltp, ltpch, ltpchp) ==
    [some |-> TRUE, ltp |-> ltp, hasraw |-> TRUE,
     rltp |-> rltp, ltpch |-> ltpch, ltpchp |-> ltpchp]

----------------------------------------------------------------------------
(* Helper functions *)

\* round(): Python rounds a half to the even neighbour.
PyRound(n, d) ==
    LET f == n \div d
        r == n % d
    IN  IF 2 * r < d THEN f
        ELSE IF 2 * r > d THEN f + 1
        ELSE IF f % 2 = 0 THEN f ELSE f + 1

round_to_strike(price, step) == PyRound(price.n, price.d * step) * step

Digits == {"0", "1", "2", "3", "4", "5", "6", "7", "8", "9"}

DigitVal(c) ==
    CASE c = "0" -> 0 [] c = "1" -> 1 [] c = "2" -> 2 [] c = "3" -> 3
      [] c = "4" -> 4 [] c = "5" -> 5 [] c = "6" -> 6 [] c = "7" -> 7
      [] c = "8" -> 8 [] c = "9" -> 9

\* Length of the run of digits of s that starts at position i.
RECURSIVE RunLen(_, _)
RunLen(s, i) ==
    IF i > Len(s) \/ s[i] \notin Digits THEN 0 ELSE 1 + RunLen(s, i + 1)

\* STRIKE_RE.search(s): the leftmost position where at least 4 digits
\* start (0 when there is none); the match takes at most 7 of them.
MatchStart(s) ==
    LET starts == {i \in 1..Len(s) : RunLen(s, i) >= 4}
    IN  IF starts = {} THEN 0
        ELSE CHOOSE i \in starts : \A j \in starts : i <= j

MatchLenWholeRun(s) == RunLen(s, MatchStart(s))

MatchLen(s) ==
    LET l == RunLen(s, MatchStart(s)) IN IF l > 7 THEN 7 ELSE l

RECURSIVE DecimalOf(_)
DecimalOf(ds) ==
    IF ds = <<>> THEN 0
    ELSE 10 * DecimalOf(SubSeq(ds, 1, Len(ds) - 1)) + DigitVal(ds[Len(ds)])

StrikeOf(s) ==
    DecimalOf(SubSeq(s, MatchStart(s), MatchStart(s) + MatchLen(s) - 1))

EndsWith(s, a, b) == Len(s) >= 2 /\ s[Len(s) - 1] = a /\ s[Len(s)] = b

\* The None symbol.
NoSym == <<>>

NoLegs == [CE |-> NoSym, PE |-> NoSym]

PutSymbolOnlyLegs(m, s) ==
    IF MatchStart(s) = 0 THEN m
    ELSE IF ~EndsWith(s, "C", "E") /\ ~EndsWith(s, "P", "E") THEN m
    ELSE LET strike == StrikeOf(s)
             entry == IF strike \in DOMAIN m THEN m[strike] ELSE NoLegs
             new == IF EndsWith(s, "C", "E") THEN [entry EXCEPT !.CE = s]
                    ELSE [entry EXCEPT !.PE = s]
         IN  [k \in DOMAIN m \cup {strike} |-> IF k = strike THEN new ELSE m[k]]

\* m.setdefault(strike, {"CE": None, "PE": None}) followed by the leg store.
PutSymbol(m, s) ==
    IF MatchStart(s) = 0 THEN m
    ELSE LET strike == StrikeOf(s)
             entry == IF strike \in DOMAIN m THEN m[strike] ELSE NoLegs
             new == IF EndsWith(s, "C", "E") THEN [entry EXCEPT !.CE = s]
                    ELSE IF EndsWith(s, "P", "E") THEN [entry EXCEPT !.PE = s]
                    ELSE entry
         IN  [k \in DOMAIN m \cup {strike} |-> IF k = strike THEN new ELSE m[k]]

RECURSIVE build_from(_, _)
build_from(m, syms) ==
    IF syms = <<>> THEN m
    ELSE build_from(PutSymbol(m, Head(syms)), Tail(syms))

EmptyMap == [k \in {} |-> NoLegs]

build_strike_map(option_symbols) == build_from(EmptyMap, option_symbols)

\* sorted(strike_map.keys())
RECURSIVE SortedSeq(_)
SortedSeq(S) ==
    IF S = {} THEN <<>>
    ELSE LET lo == CHOOSE x \in S : \A y \in S : x <= y
         IN  <<lo>> \o SortedSeq(S \ {lo})

\* min(available, key=...): the first element with the least key.
RECURSIVE MinScanLast(_, _, _)
MinScanLast(seq, target, best) ==
    IF seq = <<>> THEN best
    ELSE MinScanLast(Tail(seq), target,
            IF Abs(Head(seq) - target) <= Abs(best - target)
            THEN Head(seq) ELSE best)

RECURSIVE MinScan(_, _, _)
MinScan(seq, target, best) ==
    IF seq = <<>> THEN best
    ELSE MinScan(Tail(seq), target,
            IF Abs(Head(seq) - target) < Abs(best - target)
            THEN Head(seq) ELSE best)

NearestStrike(available, target) ==
    MinScan(Tail(available), target, Head(available))


\* An optional float: a value, NaN, or None.
Val(r) == [k |-> "val", v |-> r]

NaNVal == [k |-> "nan", v |-> Rat(0, 1)]

NoVal == [k |-> "none", v |-> Rat(0, 1)]

\* live_data.get(sym)
Get(store, sym) == IF sym \in DOMAIN store THEN store[sym] ELSE NoTick

\* The three results of choose_atm_and_symbols, and an escaping exception.
NoResult == [st |-> "none", strike |-> 0, ce |-> NoSym, pe |-> NoSym]

ChooseRaised == [st |-> "raised", strike |-> 0, ce |-> NoSym, pe |-> NoSym]

Chosen(strike, ce, pe) == [st |-> "ok", strike |-> strike, ce |-> ce, pe |-> pe]

choose_atm_no_try(tick, strike_map, step) ==
    IF ~tick.some \/ NoneOrEmpty(DictGet(tick.ltp)) THEN NoResult
    ELSE IF FloatRaises(tick.ltp) \/ FloatNaN(tick.ltp) THEN ChooseRaised
    ELSE LET atm_guess == round_to_strike(FloatVal(tick.ltp), step)
             available == SortedSeq(DOMAIN strike_map)
         IN  IF available = <<>> THEN NoResult
             ELSE LET chosen == IF atm_guess \in DOMAIN strike_map
                                THEN atm_guess
                                ELSE NearestStrike(available, atm_guess)
                  IN  Chosen(chosen, strike_map[chosen].CE, strike_map[chosen].PE)

\* choose_atm_and_symbols, given the tick that live_data.get returned.
choose_atm_and_symbols(tick, strike_map, step) ==
    IF ~tick.some \/ NoneOrEmpty(DictGet(tick.ltp)) THEN NoResult
    ELSE IF FloatRaises(tick.ltp) THEN NoResult
    ELSE IF FloatNaN(tick.ltp) THEN ChooseRaised
    ELSE LET atm_guess == round_to_strike(FloatVal(tick.ltp), step)
             available == SortedSeq(DOMAIN strike_map)
         IN  IF available = <<>> THEN NoResult
             ELSE LET chosen == IF atm_guess \in DOMAIN strike_map
                                THEN atm_guess
                                ELSE NearestStrike(available, atm_guess)
                  IN  Chosen(chosen, strike_map[chosen].CE, strike_map[chosen].PE)

FloatOpt(x) == IF FloatOk(x) THEN Val(FloatVal(x))
               ELSE IF FloatNaN(x) THEN NaNVal ELSE NoVal

\* get_ltp, given the tick that live_data.get(sym) returned.
get_ltp(sym, tick) ==
    IF sym = NoSym THEN NoVal
    ELSE IF ~tick.some THEN NoVal
    ELSE IF ~FloatRaises(DictGet(tick.ltp)) THEN FloatOpt(DictGet(tick.ltp))
    ELSE IF tick.hasraw THEN FloatOpt(DictGet(tick.rltp))
    ELSE NoVal

\* raw = tick.get("raw", tick): the dict the change fields are read from.
RawLtp(tick) == IF tick.hasraw THEN tick.rltp ELSE tick.ltp

RawEmpty(tick) ==
    tick.hasraw /\ tick.rltp = Absent /\ tick.ltpch = Absent /\ tick.ltpchp = Absent

OptAbs(o) == IF o.k = "val" THEN Val(RAbs(o.v)) ELSE o

compute_underlying_pct_from_tick(tick) ==
    IF ~tick.some THEN NoVal
    ELSE IF RawEmpty(tick) THEN NoVal
    ELSE IF tick.ltpchp # Absent /\ ~NoneOrEmpty(tick.ltpchp)
         THEN OptAbs(FloatOpt(tick.ltpchp))
    ELSE IF /\ tick.ltpch # Absent /\ ~NoneOrEmpty(tick.ltpch)
            /\ RawLtp(tick) # Absent /\ ~NoneOrEmpty(RawLtp(tick))
         THEN IF FloatRaises(tick.ltpch) \/ FloatRaises(RawLtp(tick)) THEN NoVal
              ELSE IF FloatNaN(tick.ltpch) \/ FloatNaN(RawLtp(tick)) THEN NaNVal
              ELSE LET ltpc == FloatVal(tick.ltpch)
                       ltp == FloatVal(RawLtp(tick))
                       prev == RSub(ltp, ltpc)
                   IN  IF prev.n # 0
                       THEN Val(Rat(Abs(ltpc.n * prev.d * 100), Abs(ltpc.d * prev.n)))
                       ELSE NoVal
    ELSE NoVal

\* ce_ltp + pe_ltp
OptAdd(a, b) ==
    IF a.k = "nan" \/ b.k = "nan" THEN NaNVal ELSE Val(RAdd(a.v, b.v))

----------------------------------------------------------------------------
(* Configuration and inputs *)

ENTRY_CONFIG ==
    [i \in {"NIFTY", "SENSEX"} |->
        IF i = "NIFTY"
        THEN [step |-> 50, thresholds |-> [d0 |-> 120, d1 |-> 180]]
        ELSE [step |-> 100, thresholds |-> [d0 |-> 600, d1 |-> 400]]]

NoConfig == [i \in {} |-> [step |-> 50, thresholds |-> [d0 |-> 120, d1 |-> 180]]]

underlying_symbol_map ==
    [i \in {"NIFTY", "SENSEX"} |->
        IF i = "NIFTY" THEN <<"N", "I", "F", "T", "Y", "5", "0">>
        ELSE <<"S", "E", "N", "S", "E", "X">>]

QuietPct == Rat(3, 10)


\* Option symbols of the nearest expiry, as the expiry resolver lists them.
CE0 == <<"N", "2", "5", "0", "0", "0", "C", "E">>

PE0 == <<"N", "2", "5", "0", "0", "0", "P", "E">>

CE1 == <<"N", "2", "5", "1", "0", "0", "C", "E">>

PE1 == <<"N", "2", "5", "1", "0", "0", "P", "E">>

FUT == <<"N", "2", "5", "0", "5", "0", "F", "U", "T">>

IDX == <<"N", "I", "F", "T", "Y">>

OptionLists ==
    { <<>>,
      <<IDX>>,
      <<CE0, PE0>>,
      <<CE0, PE1>>,
      <<CE0, PE0, CE1, PE1>>,
      <<CE0, PE0, FUT, CE1, PE1>> }

DteValues == {-1, 0, 1, 2}

Configs == {ENTRY_CONFIG, NoConfig}

nearest_index == "NIFTY"

underlying_sym == underlying_symbol_map[nearest_index]

\* The legs the feed delivers ticks for; the other legs never trade.
LegSymbols == {CE0, PE0}

\* Ticks the feed delivers for the underlying.
UnderlyingTicks ==
    { Tick(Num(25000)),
      RawTick(Num(25050), Absent, Absent, Frac(3, 10)),
      RawTick(Num(25025), Absent, Absent, Frac(-1, 2)),
      RawTick(Num(24975), Num(24975), Num(50), Absent),
      RawTick(NumStr(25075), NumStr(25075), Num(100), Absent),
      Tick(BadStr), Tick(EmptyStr), Tick(PyNone), Tick(Absent), Tick(NaNStr) }

\* Ticks the feed delivers for an option leg.
OptionTicks ==
    { Tick(Num(50)), Tick(Num(70)), Tick(NumStr(110)),
      RawTick(BadStr, Num(70), Absent, Absent),
      Tick(BadStr) }

TicksFor(sym) == IF sym = underlying_sym THEN UnderlyingTicks ELSE OptionTicks

----------------------------------------------------------------------------
(* State *)

VARIABLES
    live_data,       \* the tick store: symbol -> latest tick
    dte,             \* EntryModule.dte
    option_symbols,  \* EntryModule.option_symbols
    config,          \* EntryModule.config
    entry_done,      \* EntryModule.entry_done
    e_pc,            \* position of run_entry_check
    e_loc,           \* its local variables
    e_ret,           \* what it returned
    context,         \* MonitorModule.context, the trade context it was given
    stop_flag,       \* MonitorModule._stop
    thread_ref,      \* MonitorModule._thread (0: None)
    workers,         \* the threads created by start(): position and locals
    callers,         \* the threads that call start() and stop()
    hist             \* history of the calls and callbacks, for the properties

entryVars == <<dte, option_symbols, config, entry_done, e_pc, e_loc, e_ret>>

monVars == <<context, stop_flag, thread_ref, workers, callers, hist>>

vars == <<live_data, entryVars, monVars>>

NoUpdate == [some |-> FALSE, ce_ltp |-> NoVal, pe_ltp |-> NoVal,
             straddle |-> NoVal, underlying_ltp |-> NoVal]

Pending == [kind |-> "pending", decision |-> "", expiry_dte |-> 0,
            atm_strike |-> 0, ce_symbol |-> NoSym, pe_symbol |-> NoSym,
            underlying_symbol |-> NoSym, initial_straddle |-> NoVal,
            underlying_ltp |-> NoVal, underlying_pct |-> NoVal]

ReturnNone == [Pending EXCEPT !.kind = "none"]

Raised == [Pending EXCEPT !.kind = "raised"]

NoLocals == [strike_map |-> EmptyMap, tick |-> NoTick, choice |-> NoResult, ce_ltp |-> NoVal,
             pe_ltp |-> NoVal, straddle |-> NoVal, tick2 |-> NoTick]

----------------------------------------------------------------------------
(* Monitor state *)

MaxThreads == 2

ThreadIds == 1..MaxThreads

Callers == {"A", "B"}

\* The trade context of a successful entry check, as the monitor receives it.
TradeContext ==
    [index |-> nearest_index, expiry_dte |-> 0, decision |-> "HIGH_RR",
     atm_strike |-> 25000, ce_symbol |-> CE0, pe_symbol |-> PE0,
     underlying_symbol |-> underlying_sym,
     initial_straddle |-> Val(Rat(120, 1)),
     underlying_ltp |-> Val(Rat(25000, 1)), underlying_pct |-> NoVal,
     reason |-> "0DTE and straddle >= 120 and underlying quiet (pct=None)",
     config |-> ENTRY_CONFIG[nearest_index], timestamp |-> "entry",
     last_update |-> NoUpdate]

\* No monitor thread exists yet; nobody is inside start() or stop().
NewWorker == [pc |-> "unborn", update |-> NoUpdate]

\* phase: "started" once a start() has returned and until a stop() begins,
\*        "stopped" once a stop() has returned and until a start() begins.
\* cb:    "raised" once a callback has raised, "again" once a callback has
\*        been invoked after that.
NoHistory == [phase |-> "new", cb |-> "clean"]

MonitorNew ==
    /\ context = TradeContext
    /\ stop_flag = FALSE
    /\ thread_ref = 0
    /\ workers = [w \in ThreadIds |-> NewWorker]
    /\ callers = [c \in Callers |-> "idle"]
    /\ hist = NoHistory

EmptyStore == [s \in {underlying_sym} \cup LegSymbols |-> NoTick]

EntryInit ==
    /\ live_data = EmptyStore
    /\ dte \in DteValues
    /\ option_symbols \in OptionLists
    /\ config \in Configs
    /\ entry_done = FALSE
    /\ e_pc = "start"
    /\ e_loc = NoLocals
    /\ e_ret = Pending
    /\ MonitorNew

\* The external feed overwrites one symbol's tick (LiveDataStore.update).
Feed ==
    /\ e_pc # "done"
    /\ \E sym \in DOMAIN live_data : \E t \in TicksFor(sym) :
          /\ live_data[sym] # t
          /\ live_data' = [live_data EXCEPT ![sym] = t]
    /\ UNCHANGED <<entryVars, monVars>>

AtmPairMissingNoLegCheck(c) == c.st = "none" \/ c.strike = 0

SkipDteAbove2(d) == d > 2

\* if self.dte > 1
SkipDte(d) == d > 1

\* not chosen or not ce_sym or not pe_sym
AtmPairMissing(c) ==
    c.st = "none" \/ c.strike = 0 \/ c.ce = NoSym \/ c.pe = NoSym

\* run_entry_check up to the ATM resolution.
EntryResolve ==
    /\ e_pc = "start"
    /\ IF SkipDte(dte)
       THEN /\ entry_done' = TRUE
            /\ e_pc' = "done"
            /\ e_ret' = ReturnNone
            /\ UNCHANGED e_loc
       ELSE IF nearest_index \notin DOMAIN config
       THEN /\ e_pc' = "done"
            /\ e_ret' = ReturnNone
            /\ UNCHANGED <<e_loc, entry_done>>
       ELSE LET cfg == config[nearest_index]
                strike_map == build_strike_map(option_symbols)
                tick == Get(live_data, underlying_sym)
                c == choose_atm_and_symbols(tick, strike_map, cfg.step)
            IN  /\ e_loc' = [e_loc EXCEPT !.strike_map = strike_map,
                                          !.tick = tick, !.choice = c]
                /\ IF c.st = "raised"
                   THEN e_pc' = "done" /\ e_ret' = Raised
                   ELSE IF AtmPairMissing(c)
                   THEN e_pc' = "done" /\ e_ret' = ReturnNone
                   ELSE e_pc' = "read_ce" /\ UNCHANGED e_ret
                /\ UNCHANGED entry_done
    /\ UNCHANGED <<live_data, dte, option_symbols, config, monVars>>

\* ce_ltp = get_ltp(ce_sym, self.live_data)
EntryReadCe ==
    /\ e_pc = "read_ce"
    /\ e_loc' = [e_loc EXCEPT
                    !.ce_ltp = get_ltp(e_loc.choice.ce, Get(live_data, e_loc.choice.ce))]
    /\ e_pc' = "read_pe"
    /\ UNCHANGED <<live_data, dte, option_symbols, config, entry_done, e_ret, monVars>>

\* pe_ltp = get_ltp(pe_sym, self.live_data), and the missing-premium return.
EntryReadPe ==
    /\ e_pc = "read_pe"
    /\ LET pe_ltp == get_ltp(e_loc.choice.pe, Get(live_data, e_loc.choice.pe))
       IN  /\ e_loc' = [e_loc EXCEPT !.pe_ltp = pe_ltp]
           /\ IF e_loc.ce_ltp.k = "none" \/ pe_ltp.k = "none"
              THEN e_pc' = "done" /\ e_ret' = ReturnNone
              ELSE e_pc' = "decide" /\ UNCHANGED e_ret
    /\ UNCHANGED <<live_data, dte, option_symbols, config, entry_done, monVars>>

\* float(tick["ltp"]) if tick and tick.get("ltp") not in (None, "") else None
UnderlyingLtpRaises(tick) ==
    tick.some /\ ~NoneOrEmpty(DictGet(tick.ltp)) /\ FloatRaises(tick.ltp)

UnderlyingLtp(tick) ==
    IF tick.some /\ ~NoneOrEmpty(DictGet(tick.ltp)) THEN FloatOpt(tick.ltp) ELSE NoVal

\* straddle >= min_str and (underlying_pct is None or underlying_pct <= 0.3)
CriteriaStrict(straddle, min_str, pct) ==
    /\ straddle.k = "val" /\ RGe(straddle.v, Rat(min_str, 1)) /\ ~REq(straddle.v, Rat(min_str, 1))
    /\ (pct.k = "none" \/ (pct.k = "val" /\ RLe(pct.v, QuietPct)))

Criteria(straddle, min_str, pct) ==
    /\ straddle.k = "val" /\ RGe(straddle.v, Rat(min_str, 1))
    /\ (pct.k = "none" \/ (pct.k = "val" /\ RLe(pct.v, QuietPct)))

\* The decision of lines 226-245 ("NONE": the return of line 245).
Decide(d, straddle, thresholds, pct) ==
    IF d = 1
    THEN IF Criteria(straddle, thresholds.d1, pct) THEN "HIGH_RISK" ELSE "LOW_RISK"
    ELSE IF d = 0
    THEN IF Criteria(straddle, thresholds.d0, pct) THEN "HIGH_RR" ELSE "LOW_RISK"
    ELSE "NONE"

\* run_entry_check from the straddle to the returned trade context.
EntryDecide ==
    /\ e_pc = "decide"
    /\ LET cfg == config[nearest_index]
           straddle == OptAdd(e_loc.ce_ltp, e_loc.pe_ltp)
           tick == Get(live_data, underlying_sym)
           pct == compute_underlying_pct_from_tick(tick)
           decision == Decide(dte, straddle, cfg.thresholds, pct)
       IN  /\ e_loc' = [e_loc EXCEPT !.straddle = straddle, !.tick2 = tick]
           /\ e_ret' = IF UnderlyingLtpRaises(tick) THEN Raised
                       ELSE IF decision = "NONE" THEN ReturnNone
                       ELSE [kind |-> "ctx", decision |-> decision,
                             expiry_dte |-> dte,
                             atm_strike |-> e_loc.choice.strike,
                             ce_symbol |-> e_loc.choice.ce,
                             pe_symbol |-> e_loc.choice.pe,
                             underlying_symbol |-> underlying_sym,
                             initial_straddle |-> straddle,
                             underlying_ltp |-> UnderlyingLtp(tick),
                             underlying_pct |-> pct]
    /\ e_pc' = "done"
    /\ UNCHANGED <<live_data, dte, option_symbols, config, entry_done, monVars>>

EntryNext == Feed \/ EntryResolve \/ EntryReadCe \/ EntryReadPe \/ EntryDecide

EntrySpec == EntryInit /\ [][EntryNext]_vars

----------------------------------------------------------------------------
(* build_strike_map on its own: every list of at most MaxSyms symbols *)

MaxSyms == 3

\* A second call at 25000, a run of eight digits, a run of three digits
\* before the first run of four, and two runs of four.
CE0B == <<"X", "2", "5", "0", "0", "0", "C", "E">>

LONG8 == <<"1", "2", "3", "4", "5", "6", "7", "8", "P", "E">>

SHORT3 == <<"2", "5", "0", "C", "2", "6", "0", "0", "0", "P", "E">>

TWORUNS == <<"2", "5", "0", "0", "X", "2", "6", "0", "0", "C", "E">>

SymbolPool == {CE0, PE0, CE1, PE1, FUT, IDX, CE0B, LONG8, SHORT3, TWORUNS}

SymbolLists == UNION {[1..n -> SymbolPool] : n \in 0..MaxSyms}

BuildInit ==
    /\ live_data = EmptyStore
    /\ dte = 0
    /\ option_symbols \in SymbolLists
    /\ config = ENTRY_CONFIG
    /\ entry_done = FALSE
    /\ e_pc = "start"
    /\ e_loc = NoLocals
    /\ e_ret = Pending
    /\ MonitorNew

\* strike_map = build_strike_map(self.option_symbols)
BuildApply ==
    /\ e_pc = "start"
    /\ e_loc' = [e_loc EXCEPT !.strike_map = build_strike_map(option_symbols)]
    /\ e_pc' = "built"
    /\ UNCHANGED <<live_data, dte, option_symbols, config, entry_done, e_ret, monVars>>

BuildNext == BuildApply

BuildSpec == BuildInit /\ [][BuildNext]_vars

----------------------------------------------------------------------------
(* compute_underlying_pct_from_tick on its own: one tick of the underlying *)

PctLtps == {Num(110), NumStr(110), Num(10), BadStr, Absent}

PctRawLtps == {Absent, Num(110), BadStr, EmptyStr}

PctChanges == {Absent, Num(10), NumStr(10), Num(-10), Num(110), BadStr, PyNone}

PctPercents == {Absent, Frac(42, 100), NumStr(2), Frac(-1, 2), BadStr, EmptyStr, PyNone}

\* Ticks with a nested raw record, and flat ticks that carry the change
\* fields themselves.
PctTicks ==
    {NoTick}
    \cup {RawTick(l, r, c, p) : l \in PctLtps, r \in PctRawLtps,
                                c \in PctChanges, p \in PctPercents}
    \cup {[Tick(l) EXCEPT !.ltpch = c, !.ltpchp = p] :
              l \in PctLtps, c \in PctChanges, p \in PctPercents}

PctInit ==
    /\ live_data \in {[EmptyStore EXCEPT ![underlying_sym] = t] : t \in PctTicks}
    /\ dte = 0
    /\ option_symbols = <<CE0, PE0>>
    /\ config = ENTRY_CONFIG
    /\ entry_done = FALSE
    /\ e_pc = "start"
    /\ e_loc = NoLocals
    /\ e_ret = Pending
    /\ MonitorNew

\* underlying_pct = compute_underlying_pct_from_tick(underlying_tick)
PctApply ==
    /\ e_pc = "start"
    /\ LET tick == Get(live_data, underlying_sym)
       IN  /\ e_loc' = [e_loc EXCEPT !.tick2 = tick]
           /\ e_ret' = [e_ret EXCEPT
                           !.underlying_pct = compute_underlying_pct_from_tick(tick)]
    /\ e_pc' = "pct"
    /\ UNCHANGED <<live_data, dte, option_symbols, config, entry_done, monVars>>

PctNext == PctApply

PctSpec == PctInit /\ [][PctNext]_vars


----------------------------------------------------------------------------
(* The monitor: MonitorModule and the threads around it *)

\* Ticks the feed delivers while the monitor runs (NoTick: update(sym, None)).
MonTicksFor(sym) ==
    IF sym = underlying_sym THEN {Tick(Num(25000)), Tick(BadStr), Tick(PyNone)}
    ELSE IF sym = CE0 THEN {Tick(Num(70)), Tick(BadStr)}
    ELSE {RawTick(BadStr, Num(50), Absent, Absent), Tick(Num(70)), NoTick}

\* The state right after a successful entry check on <<CE0, PE0>> at DTE 0
\* and the construction of the MonitorModule on its trade context.
Init ==
    /\ live_data = [s \in {underlying_sym} \cup LegSymbols |->
                       IF s = underlying_sym THEN Tick(Num(25000))
                       ELSE IF s = CE0 THEN Tick(Num(70))
                       ELSE RawTick(BadStr, Num(50), Absent, Absent)]
    /\ dte = 0
    /\ option_symbols = <<CE0, PE0>>
    /\ config = ENTRY_CONFIG
    /\ entry_done = FALSE
    /\ e_pc = "done"
    /\ e_loc = [strike_map |-> build_strike_map(<<CE0, PE0>>),
                tick |-> Tick(Num(25000)),
                choice |-> Chosen(25000, CE0, PE0),
                ce_ltp |-> Val(Rat(70, 1)), pe_ltp |-> Val(Rat(50, 1)),
                straddle |-> Val(Rat(120, 1)), tick2 |-> Tick(Num(25000))]
    /\ e_ret = [kind |-> "ctx", decision |-> "HIGH_RR", expiry_dte |-> 0,
                atm_strike |-> 25000, ce_symbol |-> CE0, pe_symbol |-> PE0,
                underlying_symbol |-> underlying_sym,
                initial_straddle |-> Val(Rat(120, 1)),
                underlying_ltp |-> Val(Rat(25000, 1)),
                underlying_pct |-> NoVal]
    /\ MonitorNew

\* The external feed overwrites one symbol's tick while the monitor runs.
MonFeed ==
    /\ \E sym \in DOMAIN live_data : \E t \in MonTicksFor(sym) :
          /\ live_data[sym] # t
          /\ live_data' = [live_data EXCEPT ![sym] = t]
    /\ UNCHANGED <<entryVars, monVars>>

\* Thread.is_alive(): started and not yet finished.
IsAlive(t) == workers[t].pc \notin {"unborn", "created", "dead"}

Unborn == {w \in ThreadIds : workers[w].pc = "unborn"}

InStart(c) == callers[c] \in {"s_clear", "s_create", "s_run"}

\* The history when a start() begins, when a start() returns, when a
\* stop() begins and when a stop() returns.
StartBegins(h) == [h EXCEPT !.phase = IF h.phase = "stopped" THEN "between" ELSE h.phase]

StartReturns(h) == [h EXCEPT !.phase = "started"]

StopBegins(h) == [h EXCEPT !.phase = IF h.phase = "started" THEN "between" ELSE h.phase]

StopReturns(c, h) ==
    [h EXCEPT !.phase = IF \E o \in Callers \ {c} : InStart(o) THEN h.phase
                        ELSE "stopped"]

\* if self._thread and self._thread.is_alive()
AlreadyRunning(t) == t # 0 /\ IsAlive(t)

\* start(), line 336: the running check, with the early return.
StartCheck(c) ==
    /\ callers[c] = "idle"
    /\ \/ AlreadyRunning(thread_ref)
       \/ Cardinality(Unborn) > Cardinality({o \in Callers : InStart(o)})
    /\ IF AlreadyRunning(thread_ref)
       THEN /\ hist' = StartReturns(hist)
            /\ UNCHANGED callers
       ELSE /\ hist' = StartBegins(hist)
            /\ callers' = [callers EXCEPT ![c] = "s_clear"]
    /\ UNCHANGED <<live_data, entryVars, context, stop_flag, thread_ref, workers>>

\* start(), line 339: self._stop.clear()
StartClear(c) ==
    /\ callers[c] = "s_clear"
    /\ stop_flag' = FALSE
    /\ callers' = [callers EXCEPT ![c] = "s_create"]
    /\ UNCHANGED <<live_data, entryVars, context, thread_ref, workers, hist>>

\* start(), line 340: self._thread = threading.Thread(target=self._run_loop)
StartCreate(c) ==
    /\ callers[c] = "s_create"
    /\ Unborn # {}
    /\ LET t == CHOOSE w \in Unborn : \A o \in Unborn : w <= o
       IN  /\ workers' = [workers EXCEPT ![t].pc = "created"]
           /\ thread_ref' = t
    /\ callers' = [callers EXCEPT ![c] = "s_run"]
    /\ UNCHANGED <<live_data, entryVars, context, stop_flag, hist>>

\* start(), line 341: self._thread.start(); a thread started twice raises.
StartRun(c) ==
    /\ callers[c] = "s_run"
    /\ IF workers[thread_ref].pc = "created"
       THEN /\ workers' = [workers EXCEPT ![thread_ref].pc = "check"]
            /\ hist' = StartReturns(hist)
       ELSE UNCHANGED <<workers, hist>>
    /\ callers' = [callers EXCEPT ![c] = "idle"]
    /\ UNCHANGED <<live_data, entryVars, context, stop_flag, thread_ref>>

\* stop(), line 344: self._stop.set()
StopSet(c) ==
    /\ callers[c] = "idle"
    /\ stop_flag' = TRUE
    /\ hist' = StopBegins(hist)
    /\ callers' = [callers EXCEPT ![c] = "p_read"]
    /\ UNCHANGED <<live_data, entryVars, context, thread_ref, workers>>

\* stop(), line 345: if self._thread; joining a thread that was never
\* started raises.
StopRead(c) ==
    /\ callers[c] = "p_read"
    /\ IF thread_ref = 0
       THEN /\ callers' = [callers EXCEPT ![c] = "idle"]
            /\ hist' = StopReturns(c, hist)
       ELSE IF workers[thread_ref].pc = "created"
       THEN /\ callers' = [callers EXCEPT ![c] = "idle"]
            /\ UNCHANGED hist
       ELSE /\ callers' = [callers EXCEPT ![c] = "p_join"]
            /\ UNCHANGED hist
    /\ UNCHANGED <<live_data, entryVars, context, stop_flag, thread_ref, workers>>

\* stop(), line 346: join(timeout=2) returns, because the thread has
\* finished or because the two seconds are over.
StopJoin(c) ==
    /\ callers[c] = "p_join"
    /\ callers' = [callers EXCEPT ![c] = "idle"]
    /\ hist' = StopReturns(c, hist)
    /\ UNCHANGED <<live_data, entryVars, context, stop_flag, thread_ref, workers>>

WCheckIgnoresFlag(w) ==
    /\ workers[w].pc = "check"
    /\ workers' = [workers EXCEPT ![w].pc = "compute"]
    /\ UNCHANGED <<live_data, entryVars, context, stop_flag, thread_ref, callers, hist>>

\* _run_loop, line 316: while not self._stop.is_set()
WCheck(w) ==
    /\ workers[w].pc = "check"
    /\ workers' = [workers EXCEPT ![w].pc = IF stop_flag THEN "dead" ELSE "compute"]
    /\ UNCHANGED <<live_data, entryVars, context, stop_flag, thread_ref, callers, hist>>

MissingDataNoPutCheck(ce_ltp, pe_ltp, underlying_ltp) ==
    ce_ltp.k = "none" \/ underlying_ltp.k = "none"

\* if ce_ltp is None or pe_ltp is None or underlying_ltp is None
MissingData(ce_ltp, pe_ltp, underlying_ltp) ==
    ce_ltp.k = "none" \/ pe_ltp.k = "none" \/ underlying_ltp.k = "none"

\* _compute_once: the update it returns (NoUpdate: None).  The three reads
\* are taken in one step: the feed can put any combination of ticks in the
\* store, so reads spread over several steps see nothing more.
compute_once(store, ctx) ==
    LET ce_ltp == get_ltp(ctx.ce_symbol, Get(store, ctx.ce_symbol))
        pe_ltp == get_ltp(ctx.pe_symbol, Get(store, ctx.pe_symbol))
        underlying_ltp == UnderlyingLtp(Get(store, ctx.underlying_symbol))
    IN  IF MissingData(ce_ltp, pe_ltp, underlying_ltp) THEN NoUpdate
        ELSE [some |-> TRUE, ce_ltp |-> ce_ltp, pe_ltp |-> pe_ltp,
              straddle |-> OptAdd(ce_ltp, pe_ltp),
              underlying_ltp |-> underlying_ltp]

\* _run_loop, line 318: update = self._compute_once(); an exception in it
\* is caught by the loop's outer handler, which sleeps.
WCompute(w) ==
    /\ workers[w].pc = "compute"
    /\ LET raised == UnderlyingLtpRaises(Get(live_data, context.underlying_symbol))
           update == compute_once(live_data, context)
       IN  workers' = [workers EXCEPT
                          ![w].pc = IF raised \/ ~update.some THEN "sleep" ELSE "store",
                          ![w].update = IF raised THEN NoUpdate ELSE update]
    /\ UNCHANGED <<live_data, entryVars, context, stop_flag, thread_ref, callers, hist>>

WStoreRefreshesStraddle(w) ==
    /\ workers[w].pc = "store"
    /\ context' = [context EXCEPT !.last_update = workers[w].update,
                                  !.initial_straddle = workers[w].update.straddle]
    /\ workers' = [workers EXCEPT ![w].pc = "callback"]
    /\ UNCHANGED <<live_data, entryVars, stop_flag, thread_ref, callers, hist>>

\* _run_loop, line 321: self.context["last_update"] = update
WStore(w) ==
    /\ workers[w].pc = "store"
    /\ context' = [context EXCEPT !.last_update = workers[w].update]
    /\ workers' = [workers EXCEPT ![w].pc = "callback"]
    /\ UNCHANGED <<live_data, entryVars, stop_flag, thread_ref, callers, hist>>

AfterCallbackUncaught(raised) == IF raised THEN "dead" ELSE "sleep"

\* Lines 324-328: the callback's exception is caught and logged.
AfterCallback(raised) == "sleep"

\* _run_loop, line 325: self.on_update(self.context, update)
WCallback(w) ==
    /\ workers[w].pc = "callback"
    /\ \E raised \in BOOLEAN :
          /\ workers' = [workers EXCEPT ![w].pc = AfterCallback(raised)]
          /\ hist' = [hist EXCEPT
                         !.cb = IF hist.cb = "clean"
                                THEN (IF raised THEN "raised" ELSE "clean")
                                ELSE "again"]
    /\ UNCHANGED <<live_data, entryVars, context, stop_flag, thread_ref, callers>>

\* _run_loop, lines 328 and 331: time.sleep(self.interval) returns.  The
\* local update is not read again before line 318 assigns it anew.
WSleep(w) ==
    /\ workers[w].pc = "sleep"
    /\ workers' = [workers EXCEPT ![w].pc = "check", ![w].update = NoUpdate]
    /\ UNCHANGED <<live_data, entryVars, context, stop_flag, thread_ref, callers, hist>>

Next ==
    \/ MonFeed
    \/ \E c \in Callers : StartCheck(c)
    \/ \E c \in Callers : StartClear(c)
    \/ \E c \in Callers : StartCreate(c)
    \/ \E c \in Callers : StartRun(c)
    \/ \E c \in Callers : StopSet(c)
    \/ \E c \in Callers : StopRead(c)
    \/ \E c \in Callers : StopJoin(c)
    \/ \E w \in ThreadIds : WCheck(w)
    \/ \E w \in ThreadIds : WCompute(w)
    \/ \E w \in ThreadIds : WStore(w)
    \/ \E w \in ThreadIds : WCallback(w)
    \/ \E w \in ThreadIds : WSleep(w)

Spec == Init /\ [][Next]_vars

\* The same monitor with start() and stop() called from one thread only.
SeqNext ==
    \/ MonFeed
    \/ StartCheck("A") \/ StartClear("A") \/ StartCreate("A") \/ StartRun("A")
    \/ StopSet("A") \/ StopRead("A") \/ StopJoin("A")
    \/ \E w \in ThreadIds : WCheck(w)
    \/ \E w \in ThreadIds : WCompute(w)
    \/ \E w \in ThreadIds : WStore(w)
    \/ \E w \in ThreadIds : WCallback(w)
    \/ \E w \in ThreadIds : WSleep(w)

SeqSpec == Init /\ [][SeqNext]_vars

\* One step of the worker w.  A started thread is scheduled again and
\* again, time.sleep returns, and the callback is taken to return.
WorkerStep(w) == WCheck(w) \/ WCompute(w) \/ WStore(w) \/ WCallback(w) \/ WSleep(w)

\* The feed makes the put's tick disappear and come back; the other
\* ticks stay as they are.
PutFeed ==
    /\ \E t \in {NoTick, Tick(Num(70))} :
          /\ live_data[PE0] # t
          /\ live_data' = [live_data EXCEPT ![PE0] = t]
    /\ UNCHANGED <<entryVars, monVars>>

FairNext ==
    \/ PutFeed
    \/ \E c \in Callers : StartCheck(c)
    \/ \E c \in Callers : StartClear(c)
    \/ \E c \in Callers : StartCreate(c)
    \/ \E c \in Callers : StartRun(c)
    \/ \E c \in Callers : StopSet(c)
    \/ \E c \in Callers : StopRead(c)
    \/ \E c \in Callers : StopJoin(c)
    \/ \E w \in ThreadIds : WorkerStep(w)

FairSpec == Init /\ [][FairNext]_vars /\ \A w \in ThreadIds : WF_vars(WorkerStep(w))

----------------------------------------------------------------------------
(* Properties of the entry check *)

\* The check got as far as the ATM resolution.
Resolved == e_pc # "start" /\ ~(dte > 1) /\ nearest_index \in DOMAIN config

\* The strike index the check built from its symbol list.
StrikeIndex == e_loc.strike_map

BucketThreshold ==
    IF dte = 1 THEN config[nearest_index].thresholds.d1
    ELSE config[nearest_index].thresholds.d0

RiskLabel == IF dte = 1 THEN "HIGH_RISK" ELSE "HIGH_RR"

\* straddle >= threshold, and percent-change unknown or <= 0.3
RiskSeeking ==
    LET s == e_ret.initial_straddle
        p == e_ret.underlying_pct
    IN  /\ s.k = "val" /\ s.v.n >= BucketThreshold * s.v.d
        /\ (p.k = "none" \/ (p.k = "val" /\ 10 * p.v.n <= 3 * p.v.d))

\* C1: a returned trade context has DTE 0 or 1; its straddle is the call
\* premium plus the put premium; its decision is the risk-seeking label of
\* its bucket (HIGH_RISK for DTE 1, HIGH_RR for DTE 0) exactly when the
\* straddle reaches the bucket's threshold and the percent-change is
\* unknown or at most 0.3, and LOW_RISK in every other case.
C1_DecisionRule ==
    e_ret.kind = "ctx" =>
        /\ dte \in {0, 1} /\ e_ret.expiry_dte = dte
        /\ e_ret.initial_straddle = OptAdd(e_loc.ce_ltp, e_loc.pe_ltp)
        /\ e_ret.decision = IF RiskSeeking THEN RiskLabel ELSE "LOW_RISK"
        /\ (e_ret.decision = "HIGH_RISK" => dte = 1)
        /\ (e_ret.decision = "HIGH_RR" => dte = 0)

\* A 1DTE context at both boundaries: straddle 180 = threshold, pct = 0.3.
C1_Witness ==
    /\ e_ret.kind = "ctx" /\ dte = 1 /\ e_ret.decision = "HIGH_RISK"
    /\ e_ret.initial_straddle = Val(Rat(180, 1))
    /\ e_ret.underlying_pct = Val(Rat(3, 10))

\* C2: with DTE > 1 the check returns none in its first step, whatever
\* the tick store, the symbol list and the configuration hold.
C2_NoDecisionAboveOneDte ==
    (dte > 1 /\ e_pc # "start") => (e_pc = "done" /\ e_ret = ReturnNone)

\* DTE 2, a full symbol list, a valid configuration and a usable tick.
C2_Witness ==
    /\ dte > 1 /\ e_pc = "done" /\ e_ret = ReturnNone
    /\ config = ENTRY_CONFIG /\ Len(option_symbols) = 4
    /\ live_data[underlying_sym] = Tick(Num(25000))
    /\ live_data[CE0] = Tick(Num(70)) /\ live_data[PE0] = Tick(Num(70))

\* The tick read for the underlying is missing, or its ltp is missing,
\* None, empty or not a number.
UnderlyingUnusable(tick) ==
    ~tick.some \/ tick.ltp.k \in {"absent", "none", "empty", "str"}

\* C3: when the underlying has no tick or no usable ltp, the ATM
\* resolution returns (none, none, none) and the entry check returns none;
\* neither raises.
C3_MissingUnderlying ==
    (Resolved /\ UnderlyingUnusable(e_loc.tick)) =>
        (e_loc.choice = NoResult /\ e_pc = "done" /\ e_ret = ReturnNone)

\* The underlying carries a non-numeric ltp while both legs are priced.
C3_Witness ==
    /\ Resolved /\ dte = 0 /\ e_loc.tick = Tick(BadStr)
    /\ Len(option_symbols) = 4
    /\ live_data[CE0] = Tick(Num(70)) /\ live_data[PE0] = Tick(Num(50))
    /\ e_ret = ReturnNone

\* The multiple of step nearest to the price; a half goes to the even one.
RoundedTarget(price, step) ==
    CHOOSE t \in {k * step : k \in {price.n \div (price.d * step),
                                      (price.n \div (price.d * step)) + 1}} :
        /\ 2 * Abs(price.n - t * price.d) <= step * price.d
        /\ (2 * Abs(price.n - t * price.d) = step * price.d => (t \div step) % 2 = 0)

\* C9: with a non-empty index and a numeric underlying price, the resolver
\* returns the rounded target when it is a strike of the index, and
\* otherwise a strike of the index at minimal distance from the target,
\* the smaller one when two are equally close.
C9_NearestStrike ==
    (Resolved /\ FloatOk(e_loc.tick.ltp) /\ e_loc.tick.some /\ DOMAIN StrikeIndex # {}) =>
        LET target == RoundedTarget(FloatVal(e_loc.tick.ltp), config[nearest_index].step)
            got == e_loc.choice.strike
        IN  /\ e_loc.choice.st = "ok"
            /\ got \in DOMAIN StrikeIndex
            /\ (target \in DOMAIN StrikeIndex => got = target)
            /\ \A k \in DOMAIN StrikeIndex :
                  /\ Abs(got - target) <= Abs(k - target)
                  /\ (Abs(k - target) = Abs(got - target) => got <= k)

\* Price 25050 with strikes 25000 and 25100 only: a tie, resolved downwards.
C9_Witness ==
    /\ Resolved /\ e_loc.tick.ltp = Num(25050)
    /\ DOMAIN StrikeIndex = {25000, 25100}
    /\ e_loc.choice.strike = 25000

----------------------------------------------------------------------------
(* Properties of the monitor *)

\* get_ltp finds no number for the symbol: the symbol or its tick is
\* absent, or neither the tick's ltp nor its raw record's ltp is numeric.
PremiumUnavailable(sym) ==
    \/ sym = NoSym
    \/ ~Get(live_data, sym).some
    \/ /\ Get(live_data, sym).ltp.k \notin {"num", "numstr", "nan"}
       /\ \/ ~Get(live_data, sym).hasraw
          \/ Get(live_data, sym).rltp.k \notin {"num", "numstr", "nan"}

\* The underlying has no tick, or its ltp is missing or not a number.
UnderlyingUnavailable ==
    \/ ~Get(live_data, context.underlying_symbol).some
    \/ Get(live_data, context.underlying_symbol).ltp.k \notin {"num", "numstr", "nan"}

DataGap ==
    \/ PremiumUnavailable(context.ce_symbol)
    \/ PremiumUnavailable(context.pe_symbol)
    \/ UnderlyingUnavailable

\* The worker w takes a step from position p.
Leaves(w, p) == workers[w].pc = p /\ workers'[w].pc # p

\* C4: an iteration that finds a premium or the underlying price
\* unavailable goes straight to the sleep, without storing an update and
\* without reaching the callback; last_update keeps its value; after the
\* sleep the worker tests the stop flag and, unless it is set, computes again.
C4_SkipOnDataGap ==
    [][\A w \in ThreadIds :
          /\ (Leaves(w, "compute") /\ DataGap) =>
                (workers'[w].pc = "sleep" /\ ~workers'[w].update.some
                   /\ context' = context /\ hist' = hist)
          /\ Leaves(w, "sleep") => workers'[w].pc = "check"
          /\ (Leaves(w, "check") /\ ~stop_flag) => workers'[w].pc = "compute"]_vars

\* A worker sleeps after an iteration skipped for a missing put tick, and
\* the update of an earlier iteration is still the context's last_update.
C4_Witness ==
    \E w \in ThreadIds :
        /\ workers[w].pc = "sleep" /\ ~workers[w].update.some
        /\ live_data[PE0] = NoTick
        /\ context.last_update.some

\* C5: whether the callback returns or raises, the worker goes on to the
\* sleep and from there to the next test of the stop flag; unless the flag
\* is set it computes again, and an iteration with complete data stores
\* its update and reaches the callback again.
C5_CallbackFailureIsolated ==
    [][\A w \in ThreadIds :
          /\ Leaves(w, "callback") => workers'[w].pc = "sleep"
          /\ Leaves(w, "sleep") => workers'[w].pc = "check"
          /\ (Leaves(w, "check") /\ ~stop_flag) => workers'[w].pc = "compute"
          /\ (Leaves(w, "compute") /\ ~DataGap) => workers'[w].pc = "store"
          /\ Leaves(w, "store") => workers'[w].pc = "callback"]_vars

\* A callback has raised, and a callback was invoked again after it.
C5_Witness == hist.cb = "again" /\ \E w \in ThreadIds : IsAlive(w)

\* C6: once stop() has returned, and until start() is called again, no
\* worker invokes the callback.
C6_NoCallbackAfterStop ==
    [][hist.phase = "stopped" => \A w \in ThreadIds : ~Leaves(w, "callback")]_vars

\* C7: once a start() call has returned, and until the next stop() call,
\* a worker is running the loop.
C7_RunningAfterStart ==
    hist.phase = "started" => \E w \in ThreadIds : IsAlive(w)

\* C8: at most one worker thread of the monitor is executing the loop.
C8_SingleWorker == Cardinality({w \in ThreadIds : IsAlive(w)}) <= 1

----------------------------------------------------------------------------
(* Properties of build_strike_map *)

Built == e_pc = "built"

\* Four digits stand at positions i..i+3 of s.
FourDigitsAt(s, i) == i + 3 <= Len(s) /\ \A j \in i..(i + 3) : s[j] \in Digits

HasRun(s) == \E i \in 1..Len(s) : FourDigitsAt(s, i)

FirstRunAt(s) == CHOOSE i \in 1..Len(s) :
                    FourDigitsAt(s, i) /\ \A j \in 1..(i - 1) : ~FourDigitsAt(s, j)

\* Number of digits taken from the first run: as many as stand there, at most 7.
FirstRunLen(s) ==
    CHOOSE l \in 4..7 :
        /\ FirstRunAt(s) + l - 1 <= Len(s)
        /\ \A j \in FirstRunAt(s)..(FirstRunAt(s) + l - 1) : s[j] \in Digits
        /\ (l < 7 => (FirstRunAt(s) + l > Len(s) \/ s[FirstRunAt(s) + l] \notin Digits))

RECURSIVE Pow10(_)
Pow10(n) == IF n = 0 THEN 1 ELSE 10 * Pow10(n - 1)

RECURSIVE DigitSum(_, _, _)
DigitSum(s, i, l) ==
    IF l = 0 THEN 0 ELSE DigitVal(s[i]) * Pow10(l - 1) + DigitSum(s, i + 1, l - 1)

FirstRunStrike(s) == DigitSum(s, FirstRunAt(s), FirstRunLen(s))

IsCall(s) == Len(s) >= 2 /\ SubSeq(s, Len(s) - 1, Len(s)) = <<"C", "E">>

IsPut(s) == Len(s) >= 2 /\ SubSeq(s, Len(s) - 1, Len(s)) = <<"P", "E">>

\* The positions of the list whose symbol carries the strike k.
At(k) == {i \in 1..Len(option_symbols) :
             HasRun(option_symbols[i]) /\ FirstRunStrike(option_symbols[i]) = k}

CallsAt(k) == {i \in At(k) : IsCall(option_symbols[i])}

PutsAt(k) == {i \in At(k) : IsPut(option_symbols[i]) /\ ~IsCall(option_symbols[i])}

LastOf(I) == IF I = {} THEN NoSym
             ELSE option_symbols[CHOOSE i \in I : \A j \in I : j <= i]

\* The list without its i-th symbol.
Without(i) == SubSeq(option_symbols, 1, i - 1)
                 \o SubSeq(option_symbols, i + 1, Len(option_symbols))

\* C11 as stated: every strike that is a key of the map has a call or a
\* put symbol.
C11_AsStated ==
    Built => \A k \in DOMAIN StrikeIndex : StrikeIndex[k] # NoLegs

\* C11 amended: the keys of the map are exactly the strikes carried by the
\* symbols of the list, whatever their suffix; a key has two null legs
\* exactly when no symbol carrying that strike ends in CE or PE.
C11_KeysAreStrikesSeen ==
    Built =>
        /\ DOMAIN StrikeIndex =
              {FirstRunStrike(option_symbols[i]) :
                   i \in {j \in 1..Len(option_symbols) : HasRun(option_symbols[j])}}
        /\ \A k \in DOMAIN StrikeIndex :
              StrikeIndex[k] = NoLegs <=> (CallsAt(k) = {} /\ PutsAt(k) = {})

\* A futures symbol alone contributes the key 25050 with two null legs,
\* next to a strike that has its call.
C11_Witness ==
    /\ Built /\ option_symbols = <<CE0, FUT>>
    /\ StrikeIndex[25050] = NoLegs /\ StrikeIndex[25000].CE = CE0

\* C12 as stated: a symbol is the call (put) leg of a strike exactly when
\* it is the last symbol of the list with that strike and that suffix, and
\* a symbol without a digit run or without either suffix leaves the map
\* as it would be without that symbol.
C12_AsStated ==
    Built =>
        /\ \A k \in DOMAIN StrikeIndex :
              /\ StrikeIndex[k].CE = LastOf(CallsAt(k))
              /\ StrikeIndex[k].PE = LastOf(PutsAt(k))
        /\ \A i \in 1..Len(option_symbols) :
              (~HasRun(option_symbols[i])
                  \/ (~IsCall(option_symbols[i]) /\ ~IsPut(option_symbols[i])))
                 => StrikeIndex = build_strike_map(Without(i))

\* C12 amended: the legs are as stated (last symbol of the list with that
\* strike and that suffix); a symbol without a digit run leaves the map as
\* it would be without it; a symbol with a digit run and neither suffix
\* changes the map at most by adding its strike as a key, and changes no leg.
C12_LegsLastWriteWins ==
    Built =>
        /\ \A k \in DOMAIN StrikeIndex :
              /\ StrikeIndex[k].CE = LastOf(CallsAt(k))
              /\ StrikeIndex[k].PE = LastOf(PutsAt(k))
        /\ \A i \in 1..Len(option_symbols) :
              LET s == option_symbols[i]
                  rest == build_strike_map(Without(i))
              IN  /\ ~HasRun(s) => StrikeIndex = rest
                  /\ (HasRun(s) /\ ~IsCall(s) /\ ~IsPut(s)) =>
                        /\ DOMAIN StrikeIndex = DOMAIN rest \cup {FirstRunStrike(s)}
                        /\ \A k \in DOMAIN rest : StrikeIndex[k] = rest[k]

\* Two calls at 25000, the later one stored; an eight-digit run read as
\* its first seven digits.
C12_Witness ==
    /\ Built /\ option_symbols = <<CE0, CE0B, LONG8>>
    /\ StrikeIndex[25000].CE = CE0B
    /\ StrikeIndex[1234567].PE = LONG8

----------------------------------------------------------------------------
(* Properties of compute_underlying_pct_from_tick *)

IsNumber(x) == x.k \in {"num", "numstr"}

\* |change / (price - change)| * 100
DerivedPct(price, change) ==
    Rat(Abs(100 * change.n * price.d), Abs(price.n * change.d - change.n * price.d))

\* The percent-change the tick calls for: |ltpchp| when it is a number;
\* failing that, the value derived from ltpch and the tick's ltp when both
\* are numbers and their difference is not zero; otherwise none.
ExpectedPct(tick) ==
    IF ~tick.some THEN NoVal
    ELSE IF IsNumber(tick.ltpchp)
         THEN Val(Rat(Abs(tick.ltpchp.n), tick.ltpchp.d))
    ELSE IF /\ IsNumber(tick.ltpch) /\ IsNumber(tick.ltp)
            /\ tick.ltp.n * tick.ltpch.d # tick.ltpch.n * tick.ltp.d
         THEN Val(DerivedPct(tick.ltp, tick.ltpch))
    ELSE NoVal

SamePct(a, b) == a.k = b.k /\ (a.k = "val" => REq(a.v, b.v))

\* C13: for no tick, or a tick {ltp, raw: {ltpch, ltpchp}}, the function
\* returns |ltpchp| when ltpchp is numeric; failing that the percent
\* derived from ltpch and the tick's ltp when both are numeric and
\* ltp - ltpch is not zero; none in every remaining case; it never raises.
C13_PercentChange ==
    (e_pc = "pct" /\ (e_loc.tick2.hasraw \/ ~e_loc.tick2.some)) =>
        SamePct(e_ret.underlying_pct, ExpectedPct(e_loc.tick2))

----------------------------------------------------------------------------
(* Exceptions of the entry check *)

\* C14: with a valid configuration, whatever the tick store holds and
\* whenever the feed overwrites it, run_entry_check returns a trade context
\* or none: no exception leaves it.
C14_NeverRaises ==
    nearest_index \in DOMAIN config => e_ret.kind # "raised"

\* The same, for ticks whose ltp float() turns into a finite number or
\* rejects: the exception then comes from the second read of the
\* underlying, after the feed has replaced a numeric ltp by a non-numeric one.
C14_NeverRaisesOnOverwrite ==
    (nearest_index \in DOMAIN config /\ e_loc.choice.st # "raised") =>
        e_ret.kind # "raised"

----------------------------------------------------------------------------
(* Delivery of the updates *)

\* C15: an iteration that read the three prices stores its update as
\* last_update and then invokes the callback, once; when the callback is
\* invoked, last_update is the update passed to it, and its straddle is its
\* call premium plus its put premium; a stored update is delivered before
\* the worker computes the next one.
C15_DeliversStoredUpdate ==
    [][\A w \in ThreadIds :
          /\ (Leaves(w, "compute") /\ workers'[w].update.some) =>
                workers'[w].pc = "store"
          /\ Leaves(w, "store") =>
                (workers'[w].pc = "callback"
                   /\ context'.last_update = workers[w].update)
          /\ Leaves(w, "callback") =>
                /\ workers[w].update.some
                /\ context.last_update = workers[w].update
                /\ workers[w].update.straddle =
                      OptAdd(workers[w].update.ce_ltp, workers[w].update.pe_ltp)
                /\ workers'[w].pc = "sleep"]_vars

----------------------------------------------------------------------------
(* Cancellation *)

\* C16: while the stop flag is set, a worker that tests it leaves the loop
\* instead of computing again, so that the iteration in flight is its last
\* (its callback, if it gets that far, is followed by the sleep and the
\* test); a worker that left the loop stays out; and every live worker
\* eventually leaves the loop unless a start() clears the flag.
C16_StopsAfterInFlightIteration ==
    /\ [][\A w \in ThreadIds :
             /\ (stop_flag /\ Leaves(w, "check")) => workers'[w].pc = "dead"
             /\ (stop_flag /\ Leaves(w, "callback")) => workers'[w].pc = "sleep"
             /\ (stop_flag /\ Leaves(w, "sleep")) => workers'[w].pc = "check"
             /\ workers[w].pc = "dead" => workers'[w].pc = "dead"]_vars
    /\ \A w \in ThreadIds :
          (stop_flag /\ IsAlive(w)) ~> (~IsAlive(w) \/ ~stop_flag)

\* stop() has returned, the flag is set, the worker delivered an update
\* and has left the loop.
C16_Witness ==
    /\ stop_flag /\ hist.phase = "stopped"
    /\ context.last_update.some
    /\ \E w \in ThreadIds : workers[w].pc = "dead"

----------------------------------------------------------------------------
(* What the worker writes *)

\* The worker w takes a step of its loop.
Steps(w) == IsAlive(w) /\ workers'[w] # workers[w]

\* C17: no step changes a field of the trade context other than
\* last_update, and last_update changes only in a worker's store step; a
\* step of a worker leaves the tick store unchanged; so the symbols the
\* worker reads are those the context held when the monitor was built.
C17_WorkerWritesOnlyLastUpdate ==
    [][/\ DOMAIN context' = DOMAIN context
       /\ \A f \in DOMAIN context \ {"last_update"} : context'[f] = context[f]
       /\ context' # context => \E w \in ThreadIds : Leaves(w, "store")
       /\ (\E w \in ThreadIds : Steps(w)) => live_data' = live_data
       /\ context'.ce_symbol = TradeContext.ce_symbol
       /\ context'.pe_symbol = TradeContext.pe_symbol
       /\ context'.underlying_symbol = TradeContext.underlying_symbol]_vars

\* The feed has replaced the put's tick and a worker has stored an update
\* computed from the new one (70 + 70).
C17_Witness ==
    /\ context.last_update.some
    /\ context.last_update.straddle = Val(Rat(140, 1))
    /\ context.initial_straddle = Val(Rat(120, 1))
    /\ live_data[PE0] = Tick(Num(70))

====
